---------------------------- MODULE Spec2Model ----------------------------
(* peer-1on1: mentor/mentee pairing for a recurring period.                *)
(*                                                                         *)
(* The repository holds three variants of the tool:                        *)
(*   - src/peer-1on1-chatgpt-o3-mini-high.ts: randomized search            *)
(*     (generateAssignments) followed by adjustAssignments;                *)
(*   - src/unnamed/part_000, lines 1-219: createAssignments;               *)
(*   - src/unnamed/part_000, lines 221-487: generateNewAssignments         *)
(*     (greedy, fewest options first).                                     *)
(* Each variant reads {members, excluded, months} and computes one new     *)
(* period. The input data are the state; each variant's run is an action   *)
(* (the randomized variant a small state machine, one attempt per step).   *)
EXTENDS Integers, Sequences, FiniteSets, TLC

VARIABLES
    members,         \* data.members: the roster, distinct names, in order
    excluded,        \* data.excluded: the exclusion list, as a set of <<x, y>>
    months,          \* data.months: the history, oldest period first
    pc,              \* which variant runs and where it stands
    eligible,        \* generateAssignments: eligible
    extraSkipped,    \* generateAssignments: extraSkipped
    i,               \* generateAssignments: the attempt counter
    best,            \* generateAssignments: bestCandidate / bestPenalty
    prevAssignments, \* main (randomized variant): prevAssignments
    result           \* the new period: [assignments, skip]

vars == <<members, excluded, months, pc, eligible, extraSkipped, i, best,
          prevAssignments, result>>

-----------------------------------------------------------------------------
(* Bounds of the model.                                                    *)

\* rosters have at most MaxMembers members; names come from the first MaxMembers of AllNames
MaxMembers == 4
\* histories have at most MaxMonths periods
MaxMonths == 2
\* exclusion lists have at most MaxExcluded entries
MaxExcluded == 1
\* the attempts of one round of the randomized search (the code's attempts = 1000)
MaxAttempts == 2

AllNames == <<"a", "b", "c", "d", "e", "f", "g", "h">>

Names == {AllNames[k] : k \in 1..MaxMembers}

-----------------------------------------------------------------------------
(* Sequences.                                                              *)

Range(s) == {s[k] : k \in 1..Len(s)}

Last(s) == s[Len(s)]

\* Array.prototype.includes
Includes(s, x) == \E k \in 1..Len(s) : s[k] = x

\* Array.prototype.indexOf, 1-based; 0 when absent
IndexOf(s, x) ==
    IF Includes(s, x) THEN CHOOSE k \in 1..Len(s) : s[k] = x /\ \A j \in 1..(k - 1) : s[j] # x
    ELSE 0

\* s.splice(k, 1) for a 1-based position k
RemoveAt(s, k) == SubSeq(s, 1, k - 1) \o SubSeq(s, k + 1, Len(s))

\* s.splice(s.indexOf(x), 1): indexOf's -1 makes splice remove the last element
SpliceIndexOf(s, x) ==
    IF Includes(s, x) THEN RemoveAt(s, IndexOf(s, x))
    ELSE IF s = <<>> THEN s ELSE RemoveAt(s, Len(s))

\* Array.prototype.sort with the comparator (a, b) => key[a] - key[b]: stable,
\* so equal keys keep their order (insertion from the left, after the equal keys)
RECURSIVE InsertByKey(_, _, _)
InsertByKey(sorted, x, key) ==
    IF sorted = <<>> THEN <<x>>
    ELSE IF key[Head(sorted)] <= key[x]
         THEN <<Head(sorted)>> \o InsertByKey(Tail(sorted), x, key)
         ELSE <<x>> \o sorted

RECURSIVE SortByKeyFrom(_, _, _)
SortByKeyFrom(sorted, rest, key) ==
    IF rest = <<>> THEN sorted
    ELSE SortByKeyFrom(InsertByKey(sorted, Head(rest), key), Tail(rest), key)

SortByKey(s, key) == SortByKeyFrom(<<>>, s, key)

-----------------------------------------------------------------------------
(* The data model.                                                         *)

\* interface Assignment
Assignment(m, e) == [mentor |-> m, mentee |-> e]

\* interface Month / MonthData: has = FALSE is a period whose assignments field
\* is absent (the randomized variant's Month declares it optional)
Month(asg) == [has |-> TRUE, assignments |-> asg]

NoAssignmentsMonth == [has |-> FALSE, assignments |-> <<>>]

\* the members an assignment list mentions, with multiplicity
Occurrences(asg, x) ==
    Cardinality({k \in 1..Len(asg) : asg[k].mentor = x})
    + Cardinality({k \in 1..Len(asg) : asg[k].mentee = x})

NameIndex(x) == CHOOSE k \in 1..Len(AllNames) : AllNames[k] = x

\* the assignment lists a period of the input can hold: mentor # mentee, and no
\* member in two assignments of one period (the data model's invariant); the
\* order of the list is fixed, the code reads a period's list as a set
AssignmentLists ==
    {asg \in UNION {[1..n -> {Assignment(m, e) : m, e \in Names}] : n \in 0..(MaxMembers \div 2)} :
        /\ \A k \in 1..Len(asg) : asg[k].mentor # asg[k].mentee
        /\ \A x \in Names : Occurrences(asg, x) <= 1
        /\ \A k \in 1..(Len(asg) - 1) :
              NameIndex(asg[k].mentor) < NameIndex(asg[k + 1].mentor)}

Periods == {Month(asg) : asg \in AssignmentLists} \cup {NoAssignmentsMonth}

Histories == UNION {[1..n -> Periods] : n \in 0..MaxMonths}

\* rosters: the first n names, in order; names are opaque, and Periods and
\* ExclusionLists are closed under renaming, so every roster of distinct names
\* is one of these up to the names
Rosters == {SubSeq(AllNames, 1, n) : n \in 0..MaxMembers}

\* exclusion lists: entries [x, y] of two different names, in either order; the
\* code only asks whether some entry matches, so a set stands for the list
ExclusionLists ==
    {ex \in SUBSET {p \in Names \X Names : p[1] # p[2]} : Cardinality(ex) <= MaxExcluded}

NoResult == [assignments |-> <<>>, skip |-> <<>>]

NoBest == [found |-> FALSE, candidate |-> <<>>, penalty |-> 0]

-----------------------------------------------------------------------------
(* The greedy variant: generateNewAssignments (src/unnamed/part_000).      *)

\* isPairExcluded(mentor, mentee, excluded)
isPairExcluded(mentor, mentee, excl) ==
    \E pair \in excl :
        \/ (pair[1] = mentor /\ pair[2] = mentee)
        \/ (pair[1] = mentee /\ pair[2] = mentor)

\* previousMonth: the last element of months, or null (has = FALSE, no assignments)
PreviousMonth(ms) == IF Len(ms) > 0 THEN ms[Len(ms)] ELSE NoAssignmentsMonth

\* isRecentPairing(mentor, mentee, previousMonth)
isRecentPairing(mentor, mentee, previousMonth) ==
    \E k \in 1..Len(previousMonth.assignments) :
        LET a == previousMonth.assignments[k] IN
        \/ (a.mentor = mentor /\ a.mentee = mentee)
        \/ (a.mentor = mentee /\ a.mentee = mentor)

\* pairingHistory[mentor][mentee] after "Count previous pairings": every
\* assignment increments its own entry and the mirrored one
PairingHistory(mentor, mentee, ms) ==
    LET Hits(n) == {<<n, k>> : k \in {k \in 1..Len(ms[n].assignments) :
                        \/ (ms[n].assignments[k].mentor = mentor /\ ms[n].assignments[k].mentee = mentee)
                        \/ (ms[n].assignments[k].mentee = mentor /\ ms[n].assignments[k].mentor = mentee)}}
    IN Cardinality(UNION {Hits(n) : n \in 1..Len(ms)})

\* the weight "score += 100" of a pairing of the previous month
RecentPenalty == 100

\* getPairingScore(mentor, mentee, pairingHistory, previousMonth)
getPairingScore(mentor, mentee, ms) ==
    PairingHistory(mentor, mentee, ms)
    + (IF isRecentPairing(mentor, mentee, PreviousMonth(ms)) THEN RecentPenalty ELSE 0)

\* possiblePairings[mentor]: the mentees that are neither the mentor nor
\* excluded, in roster order, then sorted by score
PossiblePairings(mentor, mem, excl, ms) ==
    LET ok == SelectSeq(mem, LAMBDA mentee : mentor # mentee /\ ~isPairExcluded(mentor, mentee, excl))
        score == [mentee \in Range(ok) |-> getPairingScore(mentor, mentee, ms)]
    IN SortByKey(ok, score)

\* membersByOptionCount: usedMembers is empty when the sort runs
MembersByOptionCount(mem, excl, ms) ==
    SortByKey(mem, [m \in Range(mem) |-> Len(PossiblePairings(m, mem, excl, ms))])

\* the loop body skipping a mentor without valid mentees and leaving the
\* mentor out of usedMembers, and pairing as GreedyStep does otherwise
GreedyStep_SkipNotMarked(st, mentor, mem, excl, ms) ==
    IF mentor \in st.usedMembers THEN st
    ELSE
        LET validMentees == SelectSeq(PossiblePairings(mentor, mem, excl, ms),
                                      LAMBDA p : p \notin st.usedMembers)
            previousMonth == PreviousMonth(ms)
        IN
        IF Len(validMentees) = 0
        THEN [st EXCEPT !.skip = Append(@, mentor)]
        ELSE
            LET first == validMentees[1]
                identical == \E k \in 1..Len(previousMonth.assignments) :
                                 /\ previousMonth.assignments[k].mentor = mentor
                                 /\ previousMonth.assignments[k].mentee = first
                canReverse == first \notin st.usedMembers /\ ~isPairExcluded(first, mentor, excl)
                selected == IF identical /\ Len(validMentees) > 1 THEN validMentees[2] ELSE first
            IN
            IF identical /\ canReverse
            THEN [st EXCEPT !.assignments = Append(@, Assignment(first, mentor)),
                            !.usedMembers = @ \cup {mentor, first}]
            ELSE [st EXCEPT !.assignments = Append(@, Assignment(mentor, selected)),
                            !.usedMembers = @ \cup {mentor, selected}]

\* one iteration of "for (const mentor of membersByOptionCount)";
\* st = [assignments, usedMembers, skip]
GreedyStep(st, mentor, mem, excl, ms) ==
    IF mentor \in st.usedMembers THEN st
    ELSE
        LET validMentees == SelectSeq(PossiblePairings(mentor, mem, excl, ms),
                                      LAMBDA p : p \notin st.usedMembers)
            previousMonth == PreviousMonth(ms)
        IN
        IF Len(validMentees) = 0
        THEN [st EXCEPT !.skip = Append(@, mentor), !.usedMembers = @ \cup {mentor}]
        ELSE
            LET first == validMentees[1]
                identical == \E k \in 1..Len(previousMonth.assignments) :
                                 /\ previousMonth.assignments[k].mentor = mentor
                                 /\ previousMonth.assignments[k].mentee = first
                canReverse == first \notin st.usedMembers /\ ~isPairExcluded(first, mentor, excl)
                selected == IF identical /\ Len(validMentees) > 1 THEN validMentees[2] ELSE first
            IN
            IF identical /\ canReverse
            THEN [st EXCEPT !.assignments = Append(@, Assignment(first, mentor)),
                            !.usedMembers = @ \cup {mentor, first}]
            ELSE [st EXCEPT !.assignments = Append(@, Assignment(mentor, selected)),
                            !.usedMembers = @ \cup {mentor, selected}]

RECURSIVE GreedyLoop(_, _, _, _, _)
GreedyLoop(st, order, mem, excl, ms) ==
    IF order = <<>> THEN st
    ELSE GreedyLoop(GreedyStep(st, Head(order), mem, excl, ms), Tail(order), mem, excl, ms)

\* generateNewAssignments(members, excluded, months)
generateNewAssignments(mem, excl, ms) ==
    LET st == GreedyLoop([assignments |-> <<>>, usedMembers |-> {}, skip |-> <<>>],
                         MembersByOptionCount(mem, excl, ms), mem, excl, ms)
    IN [assignments |-> st.assignments,
        skip |-> st.skip \o SelectSeq(mem, LAMBDA m : m \notin st.usedMembers)]

-----------------------------------------------------------------------------
(* The createAssignments variant (src/unnamed/part_000).                   *)

\* isExcluded(pair, excludedList)
isExcluded(pair, excludedList) ==
    \E excludedPair \in excludedList :
        \/ (excludedPair[1] = pair[1] /\ excludedPair[2] = pair[2])
        \/ (excludedPair[1] = pair[2] /\ excludedPair[2] = pair[1])

NoPair == [found |-> FALSE, mentor |-> "", mentee |-> ""]

FoundPair(a) == [found |-> TRUE, mentor |-> a.mentor, mentee |-> a.mentee]

\* monthData.assignments.find(a => a.mentor === member || a.mentee === member)
FindMember(asg, member) ==
    LET hits == {k \in 1..Len(asg) : asg[k].mentor = member \/ asg[k].mentee = member}
    IN IF hits = {} THEN NoPair
       ELSE FoundPair(asg[CHOOSE k \in hits : \A j \in hits : k <= j])

\* getRecentPair(member, months): the member's assignment in the latest period that has one
RECURSIVE getRecentPairFrom(_, _, _)
getRecentPairFrom(member, ms, n) ==
    IF n = 0 THEN NoPair
    ELSE IF FindMember(ms[n].assignments, member).found
         THEN FindMember(ms[n].assignments, member)
         ELSE getRecentPairFrom(member, ms, n - 1)

getRecentPair(member, ms) == getRecentPairFrom(member, ms, Len(ms))

\* getPastPairs(pair, months): the assignments of the two members, either
\* orientation, oldest first
RECURSIVE getPastPairsFrom(_, _, _)
getPastPairsFrom(pair, ms, n) ==
    IF n > Len(ms) THEN <<>>
    ELSE SelectSeq(ms[n].assignments,
                   LAMBDA a : \/ (a.mentor = pair[1] /\ a.mentee = pair[2])
                              \/ (a.mentor = pair[2] /\ a.mentee = pair[1]))
         \o getPastPairsFrom(pair, ms, n + 1)

getPastPairs(pair, ms) == getPastPairsFrom(pair, ms, 1)

\* isPairUsed(mentor, mentee): usedPairs holds the keys "mentor:mentee"
isPairUsed(usedPairs, mentor, mentee) ==
    <<mentor, ":", mentee>> \in usedPairs \/ <<mentee, ":", mentor>> \in usedPairs

\* the guards of assignPair(mentor, mentee)
CanAssignPair(st, mentor, mentee, excludedList, pastMonths) ==
    LET recentMentorPair == getRecentPair(mentor, pastMonths)
        recentMenteePair == getRecentPair(mentee, pastMonths)
    IN /\ mentor # mentee
       /\ ~isExcluded(<<mentor, mentee>>, excludedList)
       /\ ~isPairUsed(st.usedPairs, mentor, mentee)
       /\ ~(recentMentorPair.found /\ recentMentorPair.mentee = mentee)
       /\ ~(recentMenteePair.found /\ recentMenteePair.mentor = mentor)

\* assignPair(mentor, mentee) when its guards pass;
\* st = [availableMentors, availableMentees, assignments, usedPairs]
DoAssignPair(st, mentor, mentee) ==
    [availableMentors |-> SpliceIndexOf(st.availableMentors, mentor),
     availableMentees |-> SpliceIndexOf(st.availableMentees, mentee),
     assignments |-> Append(st.assignments, Assignment(mentor, mentee)),
     usedPairs |-> st.usedPairs \cup {<<mentor, ":", mentee>>}]

\* assignPair(mentor, mentee): the state after the call
assignPair(st, mentor, mentee, excludedList, pastMonths) ==
    IF CanAssignPair(st, mentor, mentee, excludedList, pastMonths)
    THEN DoAssignPair(st, mentor, mentee)
    ELSE st

\* the body of the first double loop, for (member1, member2)
ReverseStep(st, member1, member2, excludedList, pastMonths) ==
    LET pastDirectPairs == getPastPairs(<<member1, member2>>, pastMonths) IN
    IF /\ member1 # member2
       /\ Len(pastDirectPairs) > 0
       /\ Last(pastDirectPairs).mentor = member1
       /\ Includes(st.availableMentors, member2)
       /\ Includes(st.availableMentees, member1)
    THEN assignPair(st, member2, member1, excludedList, pastMonths)
    ELSE st

\* the first double loop, from the k-th (member1, member2) on, k = 0 .. n*n - 1
RECURSIVE ReverseLoop(_, _, _, _, _)
ReverseLoop(st, k, mem, excludedList, pastMonths) ==
    IF k >= Len(mem) * Len(mem) THEN st
    ELSE ReverseLoop(ReverseStep(st, mem[(k \div Len(mem)) + 1], mem[(k % Len(mem)) + 1],
                                 excludedList, pastMonths),
                     k + 1, mem, excludedList, pastMonths)

\* the inner loop of the second double loop for one mentor, from the j-th mentee
\* on: the first mentee assignPair accepts ends it
RECURSIVE MenteeLoop(_, _, _, _, _, _)
MenteeLoop(st, mentor, j, mem, excludedList, pastMonths) ==
    IF j > Len(mem) THEN st
    ELSE IF /\ Includes(st.availableMentees, mem[j])
            /\ CanAssignPair(st, mentor, mem[j], excludedList, pastMonths)
         THEN DoAssignPair(st, mentor, mem[j])
         ELSE MenteeLoop(st, mentor, j + 1, mem, excludedList, pastMonths)

\* the second double loop, from the k-th mentor on
RECURSIVE MentorLoop(_, _, _, _, _)
MentorLoop(st, k, mem, excludedList, pastMonths) ==
    IF k > Len(mem) THEN st
    ELSE MentorLoop(IF Includes(st.availableMentors, mem[k])
                    THEN MenteeLoop(st, mem[k], 1, mem, excludedList, pastMonths)
                    ELSE st,
                    k + 1, mem, excludedList, pastMonths)

\* createAssignments(members, excludedList, pastMonths)
createAssignments(mem, excludedList, pastMonths) ==
    LET st0 == [availableMentors |-> mem, availableMentees |-> mem,
                assignments |-> <<>>, usedPairs |-> {}]
        st1 == ReverseLoop(st0, 0, mem, excludedList, pastMonths)
        st2 == MentorLoop(st1, 1, mem, excludedList, pastMonths)
    IN [assignments |-> st2.assignments,
        skip |-> st2.availableMentors \o st2.availableMentees]

-----------------------------------------------------------------------------
(* The randomized variant (src/peer-1on1-chatgpt-o3-mini-high.ts).         *)

\* the key `${mentor}|${mentee}` of an assignment
Key(mentor, mentee) == <<mentor, "|", mentee>>

\* shuffleArray(array): Fisher-Yates reaches every permutation of the array
Shuffles(array) ==
    {sh \in [1..Len(array) -> Range(array)] : \A j, k \in 1..Len(array) : j # k => sh[j] # sh[k]}

\* generateCandidate(eligible), for the shuffle the call drew; eligible has
\* even length wherever the code calls it
generateCandidate(shuffled) ==
    LET half == Len(shuffled) \div 2 IN
    [k \in 1..half |-> Assignment(shuffled[k], shuffled[k + half])]

\* countOverlap(a1, a2)
countOverlap(a1, a2) ==
    LET set == {Key(a2[k].mentor, a2[k].mentee) : k \in 1..Len(a2)} IN
    Cardinality({k \in 1..Len(a1) : Key(a1[k].mentor, a1[k].mentee) \in set})

\* buildExcludedSet adding an entry's join in its written order only
buildExcludedSet_OneWay(excl) == {Key(pair[1], pair[2]) : pair \in excl}

\* buildExcludedSet(excluded): both joins of every entry
buildExcludedSet(excl) ==
    {Key(pair[1], pair[2]) : pair \in excl} \cup {Key(pair[2], pair[1]) : pair \in excl}

\* candidateHasExcluded(candidate, excludedSet)
candidateHasExcluded(candidate, excludedSet) ==
    \E k \in 1..Len(candidate) : Key(candidate[k].mentor, candidate[k].mentee) \in excludedSet

\* pastSet: the keys of every assignment of every period of data.months that
\* has an assignments field
PastSet(ms) ==
    UNION {{Key(ms[n].assignments[k].mentor, ms[n].assignments[k].mentee) :
               k \in 1..Len(ms[n].assignments)} : n \in {j \in 1..Len(ms) : ms[j].has}}

\* the penalty the attempts loop computes for a candidate, lines 153-162
CandidatePenalty(candidate, pastSet, prev) ==
    Cardinality({k \in 1..Len(candidate) :
                    Key(candidate[k].mentor, candidate[k].mentee) \in pastSet})
    + (IF prev.has THEN countOverlap(candidate, prev.assignments) ELSE 0)

\* main: prevAssignments, searched from data.months.length - 2 down; a period
\* counts when its assignments field is there (an empty list is truthy)
RECURSIVE PrevAssignmentsFrom(_, _)
PrevAssignmentsFrom(ms, n) ==
    IF n < 1 THEN NoAssignmentsMonth
    ELSE IF ms[n].has THEN ms[n]
    ELSE PrevAssignmentsFrom(ms, n - 1)

MainPrevAssignments(ms) == PrevAssignmentsFrom(ms, Len(ms) - 1)

\* adjustAssignments, for one pair of the candidate, searching history from
\* period n down: the first assignment of the same two members decides
RECURSIVE adjustPairFrom(_, _, _)
adjustPairFrom(pair, history, n) ==
    IF n < 1 THEN pair
    ELSE
        LET asg == history[n].assignments
            same == {k \in 1..Len(asg) :
                        {asg[k].mentor, asg[k].mentee} = {pair.mentor, pair.mentee}}
        IN
        IF history[n].has /\ same # {}
        THEN LET a == asg[CHOOSE k \in same : \A j \in same : k <= j]
                 flipped == Assignment(pair.mentee, pair.mentor)
             IN IF a.mentor = pair.mentor /\ a.mentee = pair.mentee
                THEN (IF a.mentor = flipped.mentor /\ a.mentee = flipped.mentee
                      THEN pair ELSE flipped)
                ELSE pair
        ELSE adjustPairFrom(pair, history, n - 1)

\* adjustAssignments searching the oldest period alone
adjustAssignments_OldestOnly(candidate, history) ==
    [k \in 1..Len(candidate) |-> adjustPairFrom(candidate[k], history, 1)]

\* adjustAssignments flipping a pair met before whatever its last orientation
adjustAssignments_FlipAnyOrientation(candidate, history) ==
    [k \in 1..Len(candidate) |->
        IF \E n \in 1..Len(history) : \E q \in 1..Len(history[n].assignments) :
               {history[n].assignments[q].mentor, history[n].assignments[q].mentee}
                   = {candidate[k].mentor, candidate[k].mentee}
        THEN Assignment(candidate[k].mentee, candidate[k].mentor)
        ELSE candidate[k]]

\* adjustAssignments(candidate, history)
adjustAssignments(candidate, history) ==
    [k \in 1..Len(candidate) |-> adjustPairFrom(candidate[k], history, Len(history))]

\* generateAssignments entered without the removal of one member of an odd roster
EnterGenerate_NoOddSkip(index) ==
    /\ eligible' = members
    /\ extraSkipped' = <<>>
    /\ i' = 0
    /\ best' = NoBest
    /\ pc' = "attempts"

\* generateAssignments, lines 124-132: eligible and extraSkipped on entry
\* (skip is undefined in main's call); an odd roster loses the member at index
EnterGenerate(index) ==
    /\ eligible' = (IF Len(members) % 2 # 0 THEN RemoveAt(members, index) ELSE members)
    /\ extraSkipped' = (IF Len(members) % 2 # 0 THEN <<members[index]>> ELSE <<>>)
    /\ i' = 0
    /\ best' = NoBest
    /\ pc' = "attempts"

\* Math.floor(Math.random() * length): any index of the array (one draw when
\* nothing is removed)
RandomIndexes(array) == IF Len(array) % 2 # 0 THEN 1..Len(array) ELSE {1}

\* main up to the call of generateAssignments, and the call's entry
MainRandom ==
    /\ pc = "input"
    /\ Len(months) > 0
    /\ prevAssignments' = MainPrevAssignments(months)
    /\ \E index \in RandomIndexes(members) : EnterGenerate(index)
    /\ UNCHANGED <<members, excluded, months, result>>

\* bestCandidate / bestPenalty after one pass of the attempts loop, lines
\* 150-167, for the candidate the pass drew
AfterAttempt(b, candidate, excludedSet, pastSet, prev) ==
    LET penalty == CandidatePenalty(candidate, pastSet, prev) IN
    IF /\ ~candidateHasExcluded(candidate, excludedSet)
       /\ (~b.found \/ penalty < b.penalty)
    THEN [found |-> TRUE, candidate |-> candidate, penalty |-> penalty]
    ELSE b

\* the loop ends after a pass that leaves b: "if (bestPenalty === 0) break" of
\* a pass that kept its candidate, or the last of the attempts
LoopEnds(b) == (b # best /\ b.penalty = 0) \/ i + 1 >= MaxAttempts

\* a pass of the attempts loop after which the loop goes on
Attempt(b) ==
    /\ ~LoopEnds(b)
    /\ best' = b
    /\ i' = i + 1
    /\ UNCHANGED <<members, excluded, months, pc, eligible, extraSkipped,
                   prevAssignments, result>>

\* the pass that ends the loop without a candidate while eligible is not empty,
\* lines 169-175: the locals lose one member and generateAssignments is called
\* again with the arguments of this call, its result returned as is
Retry(b) ==
    /\ LoopEnds(b)
    /\ ~b.found
    /\ Len(eligible) # 0
    /\ \E index \in RandomIndexes(members) : EnterGenerate(index)
    /\ UNCHANGED <<members, excluded, months, prevAssignments, result>>

\* the pass that ends the loop with a candidate (or with none and nobody
\* eligible, line 171), the return of line 177, then main: adjustAssignments
\* over the whole history, and the new period
Return(b) ==
    /\ LoopEnds(b)
    /\ b.found \/ Len(eligible) = 0
    /\ best' = b
    /\ result' = [assignments |-> adjustAssignments(
                                      IF b.found THEN b.candidate ELSE <<>>, months),
                  skip |-> extraSkipped]
    /\ pc' = "doneRandom"
    /\ i' = 0
    /\ UNCHANGED <<members, excluded, months, eligible, extraSkipped, prevAssignments>>

\* one pass of the attempts loop and what follows it
AttemptPass ==
    /\ pc = "attempts"
    /\ LET excludedSet == buildExcludedSet(excluded)
           pastSet == PastSet(months)
       IN \E shuffled \in Shuffles(eligible) :
             LET b == AfterAttempt(best, generateCandidate(shuffled), excludedSet,
                                   pastSet, prevAssignments)
             IN Attempt(b) \/ Retry(b) \/ Return(b)

-----------------------------------------------------------------------------
(* The other two variants run in one step.                                 *)

\* MonthData and Month of part_000 require the assignments field
AllHaveAssignments(ms) == \A n \in 1..Len(ms) : ms[n].has

\* main of the createAssignments variant
RunCreate ==
    /\ pc = "input"
    /\ AllHaveAssignments(months)
    /\ result' = createAssignments(members, excluded, months)
    /\ pc' = "doneCreate"
    /\ UNCHANGED <<members, excluded, months, eligible, extraSkipped, i, best, prevAssignments>>

\* main of the greedy variant
RunGreedy ==
    /\ pc = "input"
    /\ AllHaveAssignments(months)
    /\ result' = generateNewAssignments(members, excluded, months)
    /\ pc' = "doneGreedy"
    /\ UNCHANGED <<members, excluded, months, eligible, extraSkipped, i, best, prevAssignments>>

-----------------------------------------------------------------------------
(* The specification: any input within the bounds, any variant.            *)

Init ==
    /\ members \in Rosters
    /\ excluded \in ExclusionLists
    /\ months \in Histories
    /\ pc = "input"
    /\ eligible = <<>>
    /\ extraSkipped = <<>>
    /\ i = 0
    /\ best = NoBest
    /\ prevAssignments = NoAssignmentsMonth
    /\ result = NoResult

Next == MainRandom \/ AttemptPass \/ RunCreate \/ RunGreedy

Spec == Init /\ [][Next]_vars

-----------------------------------------------------------------------------
(* Wide rosters: the greedy variant on a roster of WideMembers members,    *)
(* any exclusion list over them, no history.                               *)

WideMembers == 6

WideRoster == SubSeq(AllNames, 1, WideMembers)

\* every set of pairs of the roster, each pair written in roster order
WideExclusionLists ==
    SUBSET {p \in Range(WideRoster) \X Range(WideRoster) : NameIndex(p[1]) < NameIndex(p[2])}

InitWide ==
    /\ members = WideRoster
    /\ excluded \in WideExclusionLists
    /\ months = <<>>
    /\ pc = "input"
    /\ eligible = <<>>
    /\ extraSkipped = <<>>
    /\ i = 0
    /\ best = NoBest
    /\ prevAssignments = NoAssignmentsMonth
    /\ result = NoResult

SpecWide == InitWide /\ [][RunGreedy]_vars

-----------------------------------------------------------------------------
(* Long histories: the greedy variant on a roster of LongMembers members,  *)
(* no exclusions, and a history read period by period: one period repeated *)
(* any number of times, then any one period.                               *)

LongMembers == 3

MaxLongMonths == 102

LongRoster == SubSeq(AllNames, 1, LongMembers)

LongPeriods ==
    {Month(<<>>)} \cup
    {Month(<<Assignment(m, e)>>) : <<m, e>> \in {p \in Range(LongRoster) \X Range(LongRoster) : p[1] # p[2]}}

\* the input's next period is read
ReadMonth ==
    /\ pc = "input"
    /\ Len(months) < MaxLongMonths
    /\ \A n \in 1..Len(months) : months[n] = months[1]
    /\ \E p \in LongPeriods : months' = Append(months, p)
    /\ UNCHANGED <<members, excluded, pc, eligible, extraSkipped, i, best,
                   prevAssignments, result>>

InitLong ==
    /\ members = LongRoster
    /\ excluded = {}
    /\ months = <<>>
    /\ pc = "input"
    /\ eligible = <<>>
    /\ extraSkipped = <<>>
    /\ i = 0
    /\ best = NoBest
    /\ prevAssignments = NoAssignmentsMonth
    /\ result = NoResult

NextLong == ReadMonth \/ RunGreedy

SpecLong == InitLong /\ [][NextLong]_vars

-----------------------------------------------------------------------------
(* adjustAssignments alone, applied to any candidate and history and then  *)
(* to its own result with the same history.  adjustAssignments treats the  *)
(* assignments of the candidate one by one and compares each with the      *)
(* history's assignments of the same two members, so the lists are drawn   *)
(* from the two orientations of one pair and one assignment of another     *)
(* pair; lists may repeat an assignment and a period may hold both         *)
(* orientations, since the function accepts any list.                      *)

MaxAdjustPairs == 2

MaxAdjustMonths == 2

AdjustAssignments == {Assignment("a", "b"), Assignment("b", "a"), Assignment("a", "c")}

AdjustLists == UNION {[1..n -> AdjustAssignments] : n \in 0..MaxAdjustPairs}

AdjustPeriods == {Month(asg) : asg \in AdjustLists} \cup {NoAssignmentsMonth}

AdjustHistories == UNION {[1..n -> AdjustPeriods] : n \in 0..MaxAdjustMonths}

InitAdjust ==
    /\ members = <<"a", "b", "c">>
    /\ excluded = {}
    /\ months \in AdjustHistories
    /\ pc = "candidate"
    /\ eligible = <<>>
    /\ extraSkipped = <<>>
    /\ i = 0
    /\ best \in {[found |-> TRUE, candidate |-> c, penalty |-> 0] : c \in AdjustLists}
    /\ prevAssignments = NoAssignmentsMonth
    /\ result = NoResult

\* newAssignments = adjustAssignments(newAssignments, history)
AdjustOnce ==
    /\ pc = "candidate"
    /\ result' = [assignments |-> adjustAssignments(best.candidate, months), skip |-> <<>>]
    /\ pc' = "adjusted"
    /\ UNCHANGED <<members, excluded, months, eligible, extraSkipped, i, best, prevAssignments>>

\* the same call on its own result, with the same history
AdjustAgain ==
    /\ pc = "adjusted"
    /\ result' = [assignments |-> adjustAssignments(result.assignments, months), skip |-> <<>>]
    /\ pc' = "readjusted"
    /\ UNCHANGED <<members, excluded, months, eligible, extraSkipped, i, best, prevAssignments>>

NextAdjust == AdjustOnce \/ AdjustAgain

SpecAdjust == InitAdjust /\ [][NextAdjust]_vars

-----------------------------------------------------------------------------
(* What the claims speak of, stated apart from the code's own operators.   *)

Done == pc \in {"doneRandom", "doneCreate", "doneGreedy"}

\* {x, y} is an excluded pair
ExcludedPair(x, y) == <<x, y>> \in excluded \/ <<y, x>> \in excluded

\* the periods of ms in which x and y were paired, either orientation
PairMonths(x, y, ms) ==
    {n \in 1..Len(ms) : \E k \in 1..Len(ms[n].assignments) :
        {ms[n].assignments[k].mentor, ms[n].assignments[k].mentee} = {x, y}}

\* the chronologically last assignment of x and y (PairMonths is not empty)
LastAssignment(x, y, ms) ==
    LET n == CHOOSE q \in PairMonths(x, y, ms) : \A r \in PairMonths(x, y, ms) : r <= q
        k == CHOOSE q \in 1..Len(ms[n].assignments) :
                 {ms[n].assignments[q].mentor, ms[n].assignments[q].mentee} = {x, y}
    IN ms[n].assignments[k]

\* the periods of ms with a non-empty assignment list
NonEmptyMonths(ms) == {n \in 1..Len(ms) : Len(ms[n].assignments) > 0}

\* the assignments of the chronologically last period with a non-empty list;
\* none when there is no such period
LastNonEmptyAssignments(ms) ==
    IF NonEmptyMonths(ms) = {} THEN <<>>
    ELSE ms[CHOOSE q \in NonEmptyMonths(ms) : \A r \in NonEmptyMonths(ms) : r <= q].assignments

\* the roster can be paired completely over non-excluded pairs
RECURSIVE HasCompletePairing(_)
HasCompletePairing(S) ==
    \/ S = {}
    \/ /\ S # {}
       /\ LET x == CHOOSE q \in S : TRUE IN
          \E y \in S \ {x} : ~ExcludedPair(x, y) /\ HasCompletePairing(S \ {x, y})

-----------------------------------------------------------------------------
(* C1: no assignment of the new period is an excluded pair, in either      *)
(* orientation, whichever variant generated it (the randomized one after   *)
(* adjustAssignments).                                                     *)
C1_NoExcludedPair ==
    Done => \A k \in 1..Len(result.assignments) :
                ~ExcludedPair(result.assignments[k].mentor, result.assignments[k].mentee)

\* the randomized variant returned two pairs, one of them flipped by
\* adjustAssignments, on a roster with two members excluded from each other
C1_Witness ==
    /\ pc = "doneRandom"
    /\ Len(result.assignments) = 2
    /\ result.assignments # best.candidate
    /\ \E p \in excluded : p[1] \in Range(members) /\ p[2] \in Range(members)

(* C2: each member appears in at most one assignment of the new period,    *)
(* as mentor and mentee together, whichever variant generated it.          *)
C2_EachMemberOnce ==
    Done => \A x \in Range(members) : Occurrences(result.assignments, x) <= 1

(* C3: the retry of generateAssignments runs on a strictly smaller         *)
(* eligible set than the round of attempts that found no candidate (so     *)
(* the recursion bottoms out and the search terminates).                   *)
C3_RetryShrinks ==
    [][(pc = "attempts" /\ pc' = "attempts" /\ i' <= i) => Len(eligible') < Len(eligible)]_vars

(* C4: generateNewAssignments on an even roster that can be paired         *)
(* completely over non-excluded pairs skips nobody and pairs everybody.    *)
C4_CompletePairing ==
    (/\ pc = "doneGreedy"
     /\ Len(members) % 2 = 0
     /\ HasCompletePairing(Range(members)))
    => /\ result.skip = <<>>
       /\ \A x \in Range(members) : Occurrences(result.assignments, x) = 1

(* C5: with an empty exclusion list generateAssignments and                *)
(* generateNewAssignments return floor(n/2) assignments and n mod 2        *)
(* skipped members for a roster of n.                                      *)
C5_HalfPaired ==
    (pc \in {"doneRandom", "doneGreedy"} /\ excluded = {})
    => /\ Len(result.assignments) = Len(members) \div 2
       /\ Len(result.skip) = Len(members) % 2

\* the randomized variant, an odd roster of three, a history whose last period
\* pairs two members
C5_Witness ==
    /\ pc = "doneRandom"
    /\ excluded = {}
    /\ Len(members) = 3
    /\ Len(result.skip) = 1
    /\ Len(months) > 0
    /\ Len(months[Len(months)].assignments) > 0

(* C6: adjustAssignments keeps the number and order of the candidate's     *)
(* assignments and flips (m, e) to (e, m) exactly when the                 *)
(* chronologically last assignment of m and e in the history is (m, e).    *)
C6_FlipIffLastSame ==
    pc = "doneRandom" =>
        /\ Len(result.assignments) = Len(best.candidate)
        /\ \A k \in 1..Len(best.candidate) :
              LET c == best.candidate[k] IN
              result.assignments[k] =
                  IF /\ PairMonths(c.mentor, c.mentee, months) # {}
                     /\ LastAssignment(c.mentor, c.mentee, months) = c
                  THEN Assignment(c.mentee, c.mentor)
                  ELSE c

\* a candidate of two pairs: one met twice before, first as (e, m), last as
\* (m, e), and is flipped; the other met last as (e, m) and is kept
C6_Witness ==
    /\ pc = "doneRandom"
    /\ Len(best.candidate) = 2
    /\ \E k, j \in 1..2 :
          /\ k # j
          /\ result.assignments[k] = Assignment(best.candidate[k].mentee, best.candidate[k].mentor)
          /\ Cardinality(PairMonths(best.candidate[k].mentor, best.candidate[k].mentee, months)) = 2
          /\ months[1].assignments[1] = result.assignments[k]
          /\ result.assignments[j] = best.candidate[j]
          /\ PairMonths(best.candidate[j].mentor, best.candidate[j].mentee, months) # {}

(* C7: no assignment generateNewAssignments returns has the orientation of *)
(* the chronologically last assignment of the same two members, wherever   *)
(* in the history that one is.                                             *)
C7_NeverLastOrientation ==
    pc = "doneGreedy" =>
        \A k \in 1..Len(result.assignments) :
            LET r == result.assignments[k] IN
            PairMonths(r.mentor, r.mentee, months) # {}
                => LastAssignment(r.mentor, r.mentee, months) # r

(* C8: the candidate generateAssignments keeps has a strictly positive     *)
(* penalty whenever one of its pairs was paired before, in prevAssignments *)
(* or anywhere in the history, in either orientation.                      *)
C8_RepeatPenalised ==
    (pc \in {"attempts", "doneRandom"} /\ best.found) =>
        ((\E k \in 1..Len(best.candidate) :
              \/ PairMonths(best.candidate[k].mentor, best.candidate[k].mentee, months) # {}
              \/ PairMonths(best.candidate[k].mentor, best.candidate[k].mentee,
                            <<prevAssignments>>) # {})
         => best.penalty > 0)

(* C9: the assignments that drive the recency penalty are those of the     *)
(* chronologically last period with a non-empty assignment list:           *)
(* prevAssignments of the randomized variant's main and previousMonth of   *)
(* generateNewAssignments.                                                 *)
C9_LastNonEmptyPeriod ==
    /\ pc \in {"attempts", "doneRandom"}
          => prevAssignments.assignments = LastNonEmptyAssignments(months)
    /\ pc = "doneGreedy"
          => PreviousMonth(months).assignments = LastNonEmptyAssignments(months)

(* C10: getPairingScore of a pair of the previous period is strictly       *)
(* greater than getPairingScore of every pair that is not of it, whatever  *)
(* the history's length and the pairs' counts.                             *)
C10_RecencyOutweighs ==
    pc = "doneGreedy" =>
        \A m, e, f \in Range(members) :
            (/\ m # e
             /\ m # f
             /\ PairMonths(m, e, <<PreviousMonth(months)>>) # {}
             /\ PairMonths(m, f, <<PreviousMonth(months)>>) = {})
            => getPairingScore(m, e, months) > getPairingScore(m, f, months)

(* C11: adjustAssignments applied to its own result with the same history  *)
(* returns that result unchanged, assignment by assignment.                *)
C11_AdjustIdempotent ==
    [][(pc = "adjusted" /\ pc' = "readjusted") => result'.assignments = result.assignments]_vars

\* a candidate of two assignments adjusted twice: the first call flipped one
\* of them, which the history holds in both orientations and last as proposed
C11_Witness ==
    /\ pc = "readjusted"
    /\ Len(best.candidate) = 2
    /\ \E k \in 1..2 :
          /\ result.assignments[k] = Assignment(best.candidate[k].mentee, best.candidate[k].mentor)
          /\ \E n \in 1..Len(months) : \E q \in 1..Len(months[n].assignments) :
                 months[n].assignments[q] = result.assignments[k]

(* C12: the skip list createAssignments returns holds exactly the roster    *)
(* members that are in no returned assignment, each of them once: a member *)
(* who is mentor or mentee of a returned assignment is not in skip, and an *)
(* unpaired member is listed once, not twice.                              *)
C12_SkipExact ==
    pc = "doneCreate" =>
        /\ Range(result.skip) \subseteq Range(members)
        /\ \A x \in Range(members) :
              Cardinality({k \in 1..Len(result.skip) : result.skip[k] = x})
                  = (IF Occurrences(result.assignments, x) = 0 THEN 1 ELSE 0)

(* C13: generateNewAssignments accounts for every member of the roster     *)
(* exactly once, either in one assignment or once in skip and never both,  *)
(* and names nobody else; when every pair of the roster is excluded the    *)
(* assignment list is empty and skip is the whole roster.                  *)
C13_EveryMemberOnce ==
    pc = "doneGreedy" =>
        /\ \A x \in Range(members) :
              Occurrences(result.assignments, x)
                  + Cardinality({k \in 1..Len(result.skip) : result.skip[k] = x}) = 1
        /\ Range(result.skip) \subseteq Range(members)
        /\ \A k \in 1..Len(result.assignments) :
              {result.assignments[k].mentor, result.assignments[k].mentee} \subseteq Range(members)
        /\ (\A x, y \in Range(members) : x # y => ExcludedPair(x, y))
              => /\ result.assignments = <<>>
                 /\ Range(result.skip) = Range(members)
                 /\ Len(result.skip) = Len(members)

\* a roster of three with an excluded pair and a history: one assignment is
\* made, in the reverse of the previous period's orientation, and the member
\* left without a valid partner is the one skipped
C13_Witness ==
    /\ pc = "doneGreedy"
    /\ Len(members) = 3
    /\ excluded # {}
    /\ Len(months) > 0
    /\ Len(result.assignments) = 1
    /\ Len(result.skip) = 1
    /\ \E k \in 1..Len(months[Len(months)].assignments) :
          /\ months[Len(months)].assignments[k].mentor = result.assignments[1].mentee
          /\ months[Len(months)].assignments[k].mentee = result.assignments[1].mentor

=========================================================================
